---- MODULE Spec2Model ----
(***************************************************************************)
(* A model of hips2cotiff.py: the TIFF/BigTIFF directory builder           *)
(* (TiffEntry, TiffBuilder), the Morton bit functions (spread_bits,        *)
(* compress_bits) and main, which lays a HiPS tile pyramid out as one      *)
(* tiled TIFF.                                                             *)
(*                                                                         *)
(* Python integers are unbounded.  Every integer that the program packs    *)
(* into the file is a Num: the sequence of its base-256 digits, least      *)
(* significant first, without trailing zeros (0 is <<>>).  struct.pack of  *)
(* a Num into w bytes is then padding, and its range check a length test.  *)
(***************************************************************************)
EXTENDS Integers, Sequences, FiniteSets, TLC

VARIABLES
    zoom,        \* args.zoom
    classical,   \* args.classical / TiffBuilder.classical
    byteorder,   \* sys.byteorder of the host: the order of native struct formats
    tile_dim,    \* img.size of the sample tile (width = height)
    fs,          \* the source tree under args.root: [layout, pat, missing]
    pc,          \* where the program stands
    entries,     \* TiffBuilder.entries
    header,      \* the byte string build_header() returned last
    tailpos,     \* for each entry, len(header) when its tail() was appended
    data_head,   \* main's running offset (a Num)
    i,           \* main's loop index
    out,         \* the output file: [pos, tiles]
    err,         \* the exception that ended the run, "" when none
    bx, by,      \* inputs of the bit functions (sets of bit positions)
    bindex,      \* the interleaved index built from bx, by
    bout,        \* what compress_bits recovered: <<x, y>>
    located      \* the tile index resolved for each grid cell so far, in scan order

vars == <<zoom, classical, byteorder, tile_dim, fs, pc, entries, header, tailpos,
          data_head, i, out, err, bx, by, bindex, bout, located>>

(***************************************************************************)
(* Bounds of the model.                                                    *)
(***************************************************************************)
MaxZoom == 2        \* zoom levels 0..MaxZoom of the main specification
DeepZoom == 5       \* zoom levels 0..DeepZoom of the deep specification
MaxLocZoom == 3     \* zoom levels 0..MaxLocZoom of the locator specification
MaxEntries == 2     \* entries added to a builder
MaxCount == 5       \* element count of an added entry
BitStep == 7        \* the bit positions the bit functions are tried on: multiples of BitStep, and 31

(***************************************************************************)
(* Unbounded naturals as little-endian base-256 digit sequences.           *)
(***************************************************************************)
RECURSIVE ToNum(_)
ToNum(n) == IF n = 0 THEN <<>> ELSE <<n % 256>> \o ToNum(n \div 256)

RECURSIVE AddC(_, _, _)
AddC(a, b, c) ==
    IF a = <<>> /\ b = <<>>
    THEN (IF c = 0 THEN <<>> ELSE <<c>>)
    ELSE LET x == IF a = <<>> THEN 0 ELSE Head(a)
             y == IF b = <<>> THEN 0 ELSE Head(b)
             s == x + y + c
         IN  <<s % 256>> \o AddC(IF a = <<>> THEN <<>> ELSE Tail(a),
                                 IF b = <<>> THEN <<>> ELSE Tail(b),
                                 s \div 256)

NumAdd(a, b) == AddC(a, b, 0)

Zeros(n) == [k \in 1..n |-> 0]

\* the Num a little-endian byte string denotes
RECURSIVE Strip(_)
Strip(b) == IF b = <<>> \/ b[Len(b)] # 0 THEN b ELSE Strip(SubSeq(b, 1, Len(b) - 1))

Reverse(s) == [k \in 1..Len(s) |-> s[Len(s) + 1 - k]]

\* a small Num as a TLC integer (header positions only)
RECURSIVE NumVal(_)
NumVal(a) == IF a = <<>> THEN 0 ELSE Head(a) + 256 * NumVal(Tail(a))

(***************************************************************************)
(* class TiffType, TIFF_BYTES, class TiffTag                               *)
(***************************************************************************)
BYTE == 1
ASCII == 2
SHORT == 3
LONG == 4
RATIONAL == 5
SBYTE == 6
UNDEFINED == 7
SSHORT == 8
SLONG == 9
SRATIONAL == 10
FLOAT == 11
DOUBLE == 12

TiffType == BYTE..DOUBLE

TIFF_BYTES ==
    [t \in TiffType |->
        CASE t = BYTE -> 1      [] t = ASCII -> 1     [] t = SHORT -> 2
          [] t = LONG -> 4      [] t = RATIONAL -> 8  [] t = SBYTE -> 1
          [] t = UNDEFINED -> 1 [] t = SSHORT -> 2    [] t = SLONG -> 4
          [] t = SRATIONAL -> 8 [] t = FLOAT -> 4     [] t = DOUBLE -> 8]

ImageWidth == 256
ImageLength == 257
BitsPerSample == 258
Compression == 259
PhotometricInterpretation == 262
SamplesPerPixel == 277
PlanarConfiguration == 284
TileWidth == 322
TileLength == 323
TileOffsets == 324
TileByteCounts == 325
SampleFormat == 339

(***************************************************************************)
(* Byte strings and struct.pack.  A byte string is the sequence of the     *)
(* fields it was put together from, each field the bytes of one packed     *)
(* value or of one literal; its bytes are the fields' bytes one after      *)
(* another.  A result is [st, b]: st is "ok" with the byte string b, or    *)
(* the name of the exception raised.                                       *)
(***************************************************************************)
\* len(b): the ranges are halved so that the evaluation stays shallow
RECURSIVE LenRange(_, _, _)
LenRange(b, lo, hi) ==
    IF hi < lo THEN 0
    ELSE IF hi = lo THEN Len(b[lo])
    ELSE LenRange(b, lo, (lo + hi) \div 2) + LenRange(b, ((lo + hi) \div 2) + 1, hi)

len(b) == LenRange(b, 1, Len(b))

\* the bytes of b as one sequence
RECURSIVE FlatRange(_, _, _)
FlatRange(b, lo, hi) ==
    IF hi < lo THEN <<>>
    ELSE IF hi = lo THEN b[lo]
    ELSE FlatRange(b, lo, (lo + hi) \div 2) \o FlatRange(b, ((lo + hi) \div 2) + 1, hi)

Flat(b) == FlatRange(b, 1, Len(b))

Ok(b) == [st |-> "ok", b |-> b]
Raise(e) == [st |-> e, b |-> <<>>]

\* one unsigned field of w bytes: B (1), H (2), I (4), Q (8)
FitsU(num, w) == Len(num) <= w
\* one signed field of w bytes holding a non-negative value: b, h, i
FitsS(num, w) == Len(num) < w \/ (Len(num) = w /\ num[w] < 128)

Field(num, w, order) ==
    LET le == num \o Zeros(w - Len(num))
    IN  IF order = "little" THEN le ELSE Reverse(le)

\* struct.pack("<...", *vs): ws the widths of the format's fields, signed
\* whether they are signed fields
pack(ws, signed, vs) ==
    IF Len(ws) # Len(vs)
    THEN Raise("struct.error")
    ELSE IF \E k \in 1..Len(ws) :
               IF signed[k] THEN ~FitsS(vs[k], ws[k]) ELSE ~FitsU(vs[k], ws[k])
         THEN Raise("struct.error")
         ELSE Ok([k \in 1..Len(ws) |-> Field(vs[k], ws[k], "little")])

\* struct.pack(f"{n}B" | f"{n}H" | f"{n}I", *vs): n unsigned fields of w
\* bytes in native byte order
pack_native(n, w, vs, order) ==
    IF n # Len(vs) \/ \E k \in 1..n : ~FitsU(vs[k], w)
    THEN Raise("struct.error")
    ELSE Ok([k \in 1..n |-> Field(vs[k], w, order)])

U(n) == [k \in 1..n |-> FALSE]

(***************************************************************************)
(* class TiffEntry.  An entry is [id, type, count, value]; value is        *)
(* [list, items]: a Python list of Nums (list = TRUE) or one Num           *)
(* (list = FALSE, items = <<v>>).                                          *)
(***************************************************************************)
Scalar(v) == [list |-> FALSE, items |-> <<v>>]
List(vs) == [list |-> TRUE, items |-> vs]

TiffEntry(id, type, count, value) ==
    [id |-> id, type |-> type, count |-> count, value |-> value]

\* value = self.value; if not isinstance(value, list): value = [value];
\* value = (value + [0]*n)[:n]
Padded(value, n) == SubSeq(value.items \o [k \in 1..n |-> <<>>], 1, n)

Head3(e) == <<ToNum(e.id), ToNum(e.type), ToNum(e.count)>>

serialize(e, offset, is_classical) ==
    LET off == IF offset < 0 THEN 0 ELSE offset
        bytes == TIFF_BYTES[e.type]
        size == e.count * bytes
    IN
    IF is_classical
    THEN IF e.type \in {BYTE, SHORT, LONG}
         THEN IF size <= 4
              THEN IF e.type = BYTE
                   THEN pack(<<2, 2, 4, 1, 1, 1, 1>>, U(7), Head3(e) \o Padded(e.value, 4))
                   ELSE IF e.type = SHORT
                   THEN pack(<<2, 2, 4, 2, 2>>, U(5), Head3(e) \o Padded(e.value, 2))
                   ELSE IF e.value.list
                        THEN Raise("struct.error")
                        ELSE pack(<<2, 2, 4, 4>>, U(4), Head3(e) \o e.value.items)
              ELSE pack(<<2, 2, 4, 4>>, U(4), Head3(e) \o <<ToNum(off)>>)
         ELSE IF e.type \in {SBYTE, SSHORT, SLONG}
         THEN IF size <= 4
              THEN IF e.type = BYTE
                   THEN pack(<<2, 2, 4, 1, 1, 1, 1>>, <<FALSE, FALSE, FALSE, TRUE, TRUE, TRUE, TRUE>>,
                             Head3(e) \o Padded(e.value, 4))
                   ELSE IF e.type = SHORT
                   THEN pack(<<2, 2, 4, 2, 2>>, <<FALSE, FALSE, FALSE, TRUE, TRUE>>,
                             Head3(e) \o Padded(e.value, 2))
                   ELSE IF e.type = LONG
                   THEN IF e.value.list
                        THEN Raise("struct.error")
                        ELSE pack(<<2, 2, 4, 4>>, <<FALSE, FALSE, FALSE, TRUE>>,
                                  Head3(e) \o e.value.items)
                   ELSE Raise("None")
              ELSE pack(<<2, 2, 4, 4>>, U(4), Head3(e) \o <<ToNum(off)>>)
         ELSE Raise("AssertionError")
    ELSE IF e.type \in {BYTE, SHORT, LONG}
         THEN IF size <= 8
              THEN IF e.type = BYTE
                   THEN pack(<<2, 2, 8, 1, 1, 1, 1, 1, 1, 1, 1>>, U(11), Head3(e) \o Padded(e.value, 8))
                   ELSE IF e.type = SHORT
                   THEN pack(<<2, 2, 8, 2, 2, 2, 2>>, U(7), Head3(e) \o Padded(e.value, 4))
                   ELSE pack(<<2, 2, 8, 4, 4>>, U(5), Head3(e) \o Padded(e.value, 2))
              ELSE pack(<<2, 2, 8, 8>>, U(4), Head3(e) \o <<ToNum(off)>>)
         ELSE IF e.type \in {SBYTE, SSHORT, SLONG}
         THEN IF size <= 8
              THEN IF e.type = BYTE
                   THEN pack(<<2, 2, 8, 1, 1, 1, 1, 1, 1, 1, 1>>,
                             <<FALSE, FALSE, FALSE, TRUE, TRUE, TRUE, TRUE, TRUE, TRUE, TRUE, TRUE>>,
                             Head3(e) \o Padded(e.value, 8))
                   ELSE IF e.type = SHORT
                   THEN pack(<<2, 2, 8, 2, 2, 2, 2>>, <<FALSE, FALSE, FALSE, TRUE, TRUE, TRUE, TRUE>>,
                             Head3(e) \o Padded(e.value, 2))
                   ELSE IF e.type = LONG
                   THEN pack(<<2, 2, 8, 4, 4>>, <<FALSE, FALSE, FALSE, TRUE, TRUE>>,
                             Head3(e) \o Padded(e.value, 2))
                   ELSE Raise("None")
              ELSE pack(<<2, 2, 8, 8>>, U(4), Head3(e) \o <<ToNum(off)>>)
         ELSE Raise("AssertionError")

has_tail(e) == e.count * TIFF_BYTES[e.type] > 4

\* *self.value of a value that is no list raises TypeError
tail(e, order) ==
    IF ~has_tail(e)
    THEN Ok(<<>>)
    ELSE IF e.count > 1
         THEN IF e.type = ASCII
              THEN Raise("AttributeError")
              ELSE IF e.type \in {BYTE, SHORT, LONG}
              THEN IF ~e.value.list
                   THEN Raise("TypeError")
                   ELSE pack_native(e.count, TIFF_BYTES[e.type], e.value.items, order)
              ELSE Raise("AssertionError")
         ELSE Raise("AssertionError")

(***************************************************************************)
(* class TiffBuilder                                                       *)
(***************************************************************************)
\* b"II*\x00\x08\x00\x00\x00" + pack("<H", n)  |
\* b"II+\x00\x08\x00\x00\x00" + pack("<Q", 0x10) + pack("<Q", n)
Preamble(n, is_classical) ==
    IF is_classical
    THEN <<<<73, 73, 42, 0, 8, 0, 0, 0>>>> \o pack(<<2>>, U(1), <<ToNum(n)>>).b
    ELSE <<<<73, 73, 43, 0, 8, 0, 0, 0>>>> \o pack(<<8>>, U(1), <<ToNum(16)>>).b
                                       \o pack(<<8>>, U(1), <<ToNum(n)>>).b

\* the first loop of build_header: acc = [st, b, tb], b the header so far and
\* tb header_tail_bytes.  header += None raises TypeError.
RECURSIVE Records(_, _, _, _, _, _)
Records(es, is_classical, order, offset, k, acc) ==
    IF acc.st # "ok" \/ k > Len(es)
    THEN acc
    ELSE LET r == serialize(es[k], offset + acc.tb, is_classical)
         IN  IF r.st = "None"
             THEN [acc EXCEPT !.st = "TypeError"]
             ELSE IF r.st # "ok"
             THEN [acc EXCEPT !.st = r.st]
             ELSE LET t == tail(es[k], order)
                  IN  IF t.st # "ok"
                      THEN [acc EXCEPT !.st = t.st]
                      ELSE Records(es, is_classical, order, offset, k + 1,
                                   [st |-> "ok", b |-> acc.b \o r.b, tb |-> acc.tb + len(t.b)])

\* the second loop of build_header: acc = [b, at]; at[k] is len(header) when
\* entry k's tail was appended
RECURSIVE Tails(_, _, _, _)
Tails(es, order, k, acc) ==
    IF k > Len(es)
    THEN acc
    ELSE Tails(es, order, k + 1,
               [b |-> acc.b \o tail(es[k], order).b, at |-> Append(acc.at, len(acc.b))])

NextIFD(is_classical) == IF is_classical THEN <<Zeros(4)>> ELSE <<Zeros(8)>>

\* one run of build_header's body with the given offset: [st, b, ptr, at],
\* ptr being header_pointer_offset
build_pass(es, is_classical, order, offset) ==
    LET recs == Records(es, is_classical, order, offset, 1,
                        [st |-> "ok", b |-> Preamble(Len(es), is_classical), tb |-> 0])
    IN  IF recs.st # "ok"
        THEN [st |-> recs.st, b |-> <<>>, ptr |-> 0, at |-> <<>>]
        ELSE LET fixed == recs.b \o NextIFD(is_classical)
                 all == Tails(es, order, 1, [b |-> fixed, at |-> <<>>])
             IN  [st |-> "ok", b |-> all.b, ptr |-> len(fixed), at |-> all.at]

\* a build that returns what the run with offset = -1 produced
BuildHeaderFirstRunOnly(es, is_classical, order) ==
    build_pass(es, is_classical, order, -1)

\* build_header(): offset = -1, then once more with header_pointer_offset
build_header(es, is_classical, order) ==
    LET first == build_pass(es, is_classical, order, -1)
    IN  IF first.st # "ok" THEN first ELSE build_pass(es, is_classical, order, first.ptr)

(***************************************************************************)
(* The builder on its own: entries are added, then build_header() runs.    *)
(***************************************************************************)
\* the types add_entry is called with here
EntryTypes == {BYTE, SHORT, LONG, SBYTE, ASCII, DOUBLE}

\* element j of the k-th entry's payload: no two elements of a builder agree
ValueOf(k, j) == ToNum(16 * k + j)

NoFs == [layout |-> "none", pat |-> <<>>, missing |-> -1]
NoOut == [pos |-> <<>>, tiles |-> <<>>]

InitBuilder ==
    /\ classical \in BOOLEAN
    /\ byteorder \in {"little", "big"}
    /\ pc = "adding"
    /\ entries = <<>>
    /\ header = <<>>
    /\ tailpos = <<>>
    /\ err = ""
    /\ zoom = 0 /\ tile_dim = 0 /\ fs = NoFs /\ data_head = <<>> /\ i = 0
    /\ out = NoOut /\ bx = {} /\ by = {} /\ bindex = {} /\ bout = <<{}, {}>>
    /\ located = <<>>

\* TiffBuilder.add_entry(id, type, count, value): the payload has count
\* elements; a payload of one element is a list or a scalar
AddEntry ==
    /\ pc = "adding"
    /\ Len(entries) < MaxEntries
    /\ \E type \in EntryTypes, count \in 0..MaxCount, list \in BOOLEAN :
          /\ list \/ count = 1
          /\ LET k == Len(entries) + 1
                 items == [j \in 1..count |-> ValueOf(k, j)]
                 value == IF list THEN List(items) ELSE Scalar(items[1])
             IN  entries' = Append(entries, TiffEntry(ImageWidth + k, type, count, value))
    /\ UNCHANGED <<zoom, classical, byteorder, tile_dim, fs, pc, header, tailpos,
                   data_head, i, out, err, bx, by, bindex, bout, located>>

\* TiffBuilder.build_header()
BuildHeader ==
    /\ pc = "adding"
    /\ \E r \in {build_header(entries, classical, byteorder)} :
           /\ pc' = IF r.st = "ok" THEN "built" ELSE "failed"
           /\ err' = IF r.st = "ok" THEN "" ELSE r.st
           /\ header' = r.b
           /\ tailpos' = r.at
    /\ UNCHANGED <<zoom, classical, byteorder, tile_dim, fs, entries,
                   data_head, i, out, bx, by, bindex, bout, located>>

NextBuilder == AddEntry \/ BuildHeader

SpecBuilder == InitBuilder /\ [][NextBuilder]_vars

(***************************************************************************)
(* What a TIFF reader sees in a header.                                    *)
(***************************************************************************)
InlineThreshold(is_classical) == IF is_classical THEN 4 ELSE 8
RecordWidth(is_classical) == IF is_classical THEN 12 ELSE 20
PreambleLen(is_classical) == IF is_classical THEN 10 ELSE 24
PayloadSize(e) == e.count * TIFF_BYTES[e.type]

\* where the k-th record starts (0-based byte position) and where the fixed
\* part (records and next-directory terminator) ends
RecordAt(k, is_classical) == PreambleLen(is_classical) + (k - 1) * RecordWidth(is_classical)
FixedEnd(n, is_classical) ==
    PreambleLen(is_classical) + n * RecordWidth(is_classical)
        + (IF is_classical THEN 4 ELSE 8)

\* the value/offset field of the k-th record, read little-endian
StoredField(h, k, is_classical) ==
    LET at == RecordAt(k, is_classical) + (IF is_classical THEN 8 ELSE 12)
        w == IF is_classical THEN 4 ELSE 8
    IN  Strip(SubSeq(Flat(h), at + 1, at + w))

\* the bytes entry k put into the overflow area of header h
OverflowLen(h, at, k) == (IF k < Len(at) THEN at[k + 1] ELSE len(h)) - at[k]

(***************************************************************************)
(* Claims about the builder (SpecBuilder).                                 *)
(***************************************************************************)
\* C6: in both variants an entry whose payload size (count x type width) is
\* at most the variant's inline threshold (4 bytes classical, 8 bytes
\* 64-bit) has an empty tail() and contributes no bytes to the overflow area
\* of the header build_header returns.
C6_InlineEntryHasNoOverflowBytes ==
    pc = "built" =>
        \A k \in 1..Len(entries) :
            PayloadSize(entries[k]) <= InlineThreshold(classical) =>
                /\ tail(entries[k], byteorder).b = <<>>
                /\ OverflowLen(header, tailpos, k) = 0

\* C7: in the header build_header() returns, for either variant and any
\* sequence of BYTE/SHORT/LONG entries, the overflow area begins right after
\* the next-directory terminator, and every entry whose payload exceeds the
\* inline threshold stores in its record the absolute position at which its
\* own tail bytes begin; the bytes at that position are its own payload.
C7_StoredOffsetPointsAtOwnTail ==
    pc = "built" =>
        LET n == Len(entries)
            end == FixedEnd(n, classical)
        IN  /\ len(header) >= end
            /\ SubSeq(Flat(header), end - (IF classical THEN 4 ELSE 8) + 1, end)
                   = Flat(NextIFD(classical))
            /\ \A k \in 1..n :
                  /\ tailpos[k] >= end
                  /\ (k = 1 => tailpos[k] = end)
                  /\ PayloadSize(entries[k]) > InlineThreshold(classical) =>
                        /\ NumVal(StoredField(header, k, classical)) = tailpos[k]
                        /\ OverflowLen(header, tailpos, k) = PayloadSize(entries[k])
                        /\ \A j \in 1..entries[k].count :
                              LET w == TIFF_BYTES[entries[k].type]
                                  at == tailpos[k] + (j - 1) * w
                              IN  SubSeq(Flat(header), at + 1, at + w)
                                      = Field(entries[k].value.items[j], w, byteorder)

\* a build that returned a header with two overflow entries, the second
\* stored behind the first one's tail
C7_Witness ==
    /\ pc = "built"
    /\ Len(entries) = 2
    /\ PayloadSize(entries[1]) > InlineThreshold(classical)
    /\ PayloadSize(entries[2]) > InlineThreshold(classical)
    /\ ~classical
    /\ NumVal(StoredField(header, 2, classical)) = tailpos[1] + PayloadSize(entries[1])

\* an entry with a payload the way main passes it: a scalar for one element,
\* a list for several
AsMainBuilds(e) == (e.count = 1 /\ ~e.value.list) \/ (e.count > 1 /\ e.value.list)

\* C9: for every entry of the two handled families (BYTE/SHORT/LONG and
\* SBYTE/SSHORT/SLONG), inline or overflow, serialize returns a record of
\* exactly 12 bytes (classical) or 20 bytes (64-bit); for every other type it
\* signals the unsupported-encoding error.
C9_SerializeRecordWidth ==
    \A k \in 1..Len(entries) :
        LET r == serialize(entries[k], 0, classical)
        IN  IF entries[k].type \in {BYTE, SHORT, LONG, SBYTE, SSHORT, SLONG}
            THEN AsMainBuilds(entries[k]) =>
                    r.st = "ok" /\ len(r.b) = RecordWidth(classical)
            ELSE r.st = "AssertionError"

(***************************************************************************)
(* compress_bits, spread_bits.  A Python integer is here the set of the    *)
(* positions of its 1 bits: & is intersection, ^ symmetric difference,     *)
(* | union, << and >> move the positions.                                  *)
(***************************************************************************)
And(a, b) == a \cap b
Xor(a, b) == (a \ b) \cup (b \ a)
Or(a, b) == a \cup b
Shl(a, k) == {p + k : p \in a}
Shr(a, k) == {p - k : p \in {q \in a : q >= k}}

Word == 0..63
Mask5555555555555555 == {p \in Word : p % 2 = 0}
Mask3333333333333333 == {p \in Word : p % 4 < 2}
Mask0f0f0f0f0f0f0f0f == {p \in Word : p % 8 < 4}
Mask00ff00ff00ff00ff == {p \in Word : p % 16 < 8}
Mask0000ffff0000ffff == {p \in Word : p % 32 < 16}
Mask00000000ffffffff == {p \in Word : p < 32}

compress_bits(v) ==
    LET r0 == And(v, Mask5555555555555555)
        r1 == And(Xor(r0, Shr(r0, 1)), Mask3333333333333333)
        r2 == And(Xor(r1, Shr(r1, 2)), Mask0f0f0f0f0f0f0f0f)
        r3 == And(Xor(r2, Shr(r2, 4)), Mask00ff00ff00ff00ff)
        r4 == And(Xor(r3, Shr(r3, 8)), Mask0000ffff0000ffff)
        r5 == And(Xor(r4, Shr(r4, 16)), Mask00000000ffffffff)
    IN  r5

\* spread_bits without its shift by 8
SpreadBitsNoByteShift(v) ==
    LET r0 == And(v, Mask00000000ffffffff)
        r1 == And(Xor(r0, Shl(r0, 16)), Mask0000ffff0000ffff)
        r3 == And(Xor(r1, Shl(r1, 4)), Mask0f0f0f0f0f0f0f0f)
        r4 == And(Xor(r3, Shl(r3, 2)), Mask3333333333333333)
        r5 == And(Xor(r4, Shl(r4, 1)), Mask5555555555555555)
    IN  r5

spread_bits(v) ==
    LET r0 == And(v, Mask00000000ffffffff)
        r1 == And(Xor(r0, Shl(r0, 16)), Mask0000ffff0000ffff)
        r2 == And(Xor(r1, Shl(r1, 8)), Mask00ff00ff00ff00ff)
        r3 == And(Xor(r2, Shl(r2, 4)), Mask0f0f0f0f0f0f0f0f)
        r4 == And(Xor(r3, Shl(r3, 2)), Mask3333333333333333)
        r5 == And(Xor(r4, Shl(r4, 1)), Mask5555555555555555)
    IN  r5

\* (spread_bits(y) << 1) | spread_bits(x)
interleave(x, y) == Or(Shl(spread_bits(y), 1), spread_bits(x))

\* a small natural as a bit set, and back
BitsOf(n) == {p \in 0..30 : (n \div (2 ^ p)) % 2 = 1}
RECURSIVE IntOf(_)
IntOf(a) == IF a = {} THEN 0 ELSE LET p == CHOOSE q \in a : TRUE IN 2 ^ p + IntOf(a \ {p})

(***************************************************************************)
(* The bit functions on their own.                                         *)
(***************************************************************************)
SampleBits == {p \in 0..31 : p % BitStep = 0} \cup {31}
\* every 32-bit value with one or two bits set, and every value over SampleBits
SampleWords == SUBSET SampleBits \cup {{a, b} : a, b \in 0..31}

InitBits ==
    /\ bx \in SampleWords
    /\ by \in SUBSET SampleBits \cup {{a} : a \in 0..31}
    /\ pc = "bits"
    /\ bindex = {}
    /\ bout = <<{}, {}>>
    /\ classical = FALSE /\ byteorder = "little" /\ entries = <<>> /\ header = <<>>
    /\ tailpos = <<>> /\ err = "" /\ located = <<>>
    /\ zoom = 0 /\ tile_dim = 0 /\ fs = NoFs /\ data_head = <<>> /\ i = 0 /\ out = NoOut

\* index = (spread_bits(y) << 1) | spread_bits(x)
Interleave ==
    /\ pc = "bits"
    /\ bindex' = interleave(bx, by)
    /\ pc' = "interleaved"
    /\ UNCHANGED <<zoom, classical, byteorder, tile_dim, fs, entries, header, tailpos,
                   data_head, i, out, err, bx, by, bout, located>>

\* x, y = compress_bits(index), compress_bits(index >> 1)
Deinterleave ==
    /\ pc = "interleaved"
    /\ bout' = <<compress_bits(bindex), compress_bits(Shr(bindex, 1))>>
    /\ pc' = "deinterleaved"
    /\ UNCHANGED <<zoom, classical, byteorder, tile_dim, fs, entries, header, tailpos,
                   data_head, i, out, err, bx, by, bindex, located>>

NextBits == Interleave \/ Deinterleave

SpecBits == InitBits /\ [][NextBits]_vars

\* C2: for all unsigned 32-bit x and y, with index = (spread_bits(y) << 1) |
\* spread_bits(x), compress_bits(index) = x and compress_bits(index >> 1) = y;
\* in particular compress_bits(spread_bits(v)) = v.
C2_BitRoundTrip ==
    /\ pc = "deinterleaved" => bout = <<bx, by>>
    /\ pc = "interleaved" =>
          /\ bindex = {2 * p : p \in bx} \cup {2 * p + 1 : p \in by}
          /\ compress_bits(spread_bits(bx)) = bx

\* a round trip of two different coordinates that use the top bit
C2_Witness ==
    /\ pc = "deinterleaved"
    /\ 31 \in bx /\ 0 \in by /\ bx # by
    /\ bout = <<bx, by>>

(***************************************************************************)
(* main: the tile grid and the tile locator (lines 307-314, 343-354,       *)
(* 365-374).                                                               *)
(***************************************************************************)
nside(z) == 2 ^ z
tile_count_x(z) == nside(z) * 4
tile_count_y(z) == nside(z) * 3
total_tile(z) == tile_count_x(z) * tile_count_y(z)

\* TileIndex with the shift of spread_bits(y) forgotten
TileIndexNoShift(z, n) ==
    LET row == n \div tile_count_x(z)
        col == n % tile_count_x(z)
        f == (row \div nside(z)) * 4 + (col \div nside(z))
        x == row % nside(z)
        y == col % nside(z)
    IN  f * (nside(z) * nside(z)) + IntOf(Or(spread_bits(BitsOf(y)), spread_bits(BitsOf(x))))

\* TileIndex without the transposition: x from the column, y from the row
TileIndexNotTransposed(z, n) ==
    LET row == n \div tile_count_x(z)
        col == n % tile_count_x(z)
        f == (row \div nside(z)) * 4 + (col \div nside(z))
        x == col % nside(z)
        y == row % nside(z)
    IN  f * (nside(z) * nside(z)) + IntOf(interleave(BitsOf(x), BitsOf(y)))

\* ti of the loop body, for loop index n
TileIndex(z, n) ==
    LET row == n \div tile_count_x(z)
        col == n % tile_count_x(z)
        row0 == row \div nside(z)
        col0 == col \div nside(z)
        f == row0 * 4 + col0
        x == row % nside(z)
        y == col % nside(z)
    IN  f * (nside(z) * nside(z)) + IntOf(interleave(BitsOf(x), BitsOf(y)))

\* a source path root/Norder{norder}/Dir{dir}/Npix{npix}.jpg
Path(norder, dir, npix) == [norder |-> norder, dir |-> dir, npix |-> npix]

\* the path os.stat is given in the offset pass
StatPath(z, ti) == Path(z, (ti \div 10000) * 100000, ti)
\* the path open is given in the write pass
OpenPath(z, ti) == Path(z, (ti \div 10000) * 10000, ti)
\* the path Image.open is given
SamplePath(z) == Path(z, 0, 0)

(***************************************************************************)
(* The source tree, which the program only reads.  fs.layout says under    *)
(* which Dir a tile file lies: Dir{npix // 10000 * 10000}, Dir{npix //     *)
(* 10000 * 100000}, or both (two files); fs.pat gives the file sizes,      *)
(* repeating over npix; fs.missing is a tile that is absent (-1: none).    *)
(* Where both files exist and are not the same file, the one under         *)
(* Dir{npix // 10000 * 100000} is one byte longer.                         *)
(***************************************************************************)
Holds(f, z, p) ==
    /\ p.norder = z
    /\ p.npix \in 0..(total_tile(z) - 1)
    /\ p.npix # f.missing
    /\ \/ f.layout \in {"x10000", "both"} /\ p.dir = (p.npix \div 10000) * 10000
       \/ f.layout \in {"x100000", "both"} /\ p.dir = (p.npix \div 10000) * 100000

st_size(f, p) ==
    LET base == f.pat[(p.npix % Len(f.pat)) + 1]
    IN  IF p.dir = (p.npix \div 10000) * 10000 THEN base ELSE NumAdd(base, <<1>>)

(***************************************************************************)
(* The tile locator on its own: the loop of main without the files.        *)
(***************************************************************************)
InitLocator ==
    /\ zoom \in 0..MaxLocZoom
    /\ i = 0
    /\ located = <<>>
    /\ pc = "locate"
    /\ classical = FALSE /\ byteorder = "little" /\ entries = <<>> /\ header = <<>>
    /\ tailpos = <<>> /\ err = "" /\ tile_dim = 0 /\ fs = NoFs /\ data_head = <<>>
    /\ out = NoOut /\ bx = {} /\ by = {} /\ bindex = {} /\ bout = <<{}, {}>>

\* one turn of "for i in range(total_tile)" up to the computation of ti
Locate ==
    /\ pc = "locate"
    /\ i < total_tile(zoom)
    /\ located' = Append(located, TileIndex(zoom, i))
    /\ i' = i + 1
    /\ UNCHANGED <<zoom, classical, byteorder, tile_dim, fs, pc, entries, header, tailpos,
                   data_head, out, err, bx, by, bindex, bout>>

NextLocator == Locate

SpecLocator == InitLocator /\ [][NextLocator]_vars

\* C1: for every zoom level the locator maps the grid positions
\* 0..12*n*n-1 one-to-one onto the global indices 0..12*n*n-1: no two cells
\* get the same index, none lies outside the range, and after the last cell
\* none has been skipped.
C1_LocatorIsBijection ==
    LET got == {located[k] : k \in 1..Len(located)}
    IN  /\ Cardinality(got) = Len(located)
        /\ got \subseteq 0..(total_tile(zoom) - 1)
        /\ (pc = "locate" /\ i = total_tile(zoom)) => got = 0..(total_tile(zoom) - 1)

\* the whole grid of zoom level 2 has been resolved
C1_Witness ==
    /\ pc = "locate"
    /\ zoom = 2
    /\ i = total_tile(zoom)
    /\ Len(located) = 192

\* the layout tables of the module docstring (lines 13-47): Doc[z + 1][row + 1][col + 1];
\* the table of z = 2 shows the first 4 rows and 8 columns only
DocTable ==
    << << <<0, 1, 2, 3>>,
          <<4, 5, 6, 7>>,
          <<8, 9, 10, 11>> >>,
       << <<0, 2, 4, 6, 8, 10, 12, 14>>,
          <<1, 3, 5, 7, 9, 11, 13, 15>>,
          <<16, 18, 20, 22, 24, 26, 28, 30>>,
          <<17, 19, 21, 23, 25, 27, 29, 31>>,
          <<32, 34, 36, 38, 40, 42, 44, 46>>,
          <<33, 35, 37, 39, 41, 43, 45, 47>> >>,
       << <<0, 2, 8, 10, 16, 18, 24, 26>>,
          <<1, 3, 9, 11, 17, 19, 25, 27>>,
          <<4, 6, 12, 14, 20, 22, 28, 30>>,
          <<5, 7, 13, 15, 21, 23, 29, 31>> >> >>

\* bit k of r at bit 2k and bit k of c at bit 2k+1, for the bits below `bits`
RECURSIVE RowColBits(_, _, _)
RowColBits(r, c, bits) ==
    IF bits = 0
    THEN 0
    ELSE (r % 2) + 2 * (c % 2) + 4 * RowColBits(r \div 2, c \div 2, bits - 1)

\* C8: the index of grid cell (row, col) follows the tables of the module
\* docstring for z = 0, 1, 2: faces lie 4 columns by 3 rows
\* (face = (row div n)*4 + (col div n)) and inside a face bit k of row mod n
\* lands at bit 2k and bit k of col mod n at bit 2k+1.
C8_IndexFollowsDocTables ==
    Len(located) > 0 =>
        LET cell == Len(located) - 1
            ti == located[Len(located)]
            n == nside(zoom)
            row == cell \div (4 * n)
            col == cell % (4 * n)
            face == (row \div n) * 4 + (col \div n)
        IN  /\ ti = face * n * n + RowColBits(row % n, col % n, zoom)
            /\ (/\ zoom <= 2
                /\ row < Len(DocTable[zoom + 1])
                /\ col < Len(DocTable[zoom + 1][row + 1]))
                  => ti = DocTable[zoom + 1][row + 1][col + 1]

\* at z = 2 the cell in row 3, column 1 has just been given index 7
C8_Witness ==
    /\ zoom = 2
    /\ Len(located) = 3 * 16 + 2
    /\ located[Len(located)] = 7

(***************************************************************************)
(* main                                                                    *)
(***************************************************************************)
\* builder.add_entry(...) of lines 321-337; tw, th the sample tile's size
MainEntries(z, is_classical, tw, th) ==
    LET wide == IF is_classical THEN SHORT ELSE LONG
        image_width == tw * tile_count_x(z)
        image_height == th * tile_count_y(z)
        zeros == [x \in 1..total_tile(z) |-> <<>>]
    IN  << TiffEntry(ImageWidth, wide, 1, Scalar(ToNum(image_width))),
           TiffEntry(ImageLength, wide, 1, Scalar(ToNum(image_height))),
           TiffEntry(BitsPerSample, SHORT, 3, List(<<ToNum(8), ToNum(8), ToNum(8)>>)),
           TiffEntry(Compression, SHORT, 1, Scalar(ToNum(7))),
           TiffEntry(PhotometricInterpretation, SHORT, 1, Scalar(ToNum(6))),
           TiffEntry(SamplesPerPixel, SHORT, 1, Scalar(ToNum(3))),
           TiffEntry(PlanarConfiguration, SHORT, 1, Scalar(ToNum(1))),
           TiffEntry(TileWidth, SHORT, 1, Scalar(ToNum(tw))),
           TiffEntry(TileLength, SHORT, 1, Scalar(ToNum(th))),
           TiffEntry(TileOffsets, LONG, total_tile(z), List(zeros)),
           TiffEntry(TileByteCounts, LONG, total_tile(z), List(zeros)),
           TiffEntry(SampleFormat, SHORT, 1, Scalar(ToNum(1))) >>

\* the places of the entries main keeps a reference to
OffsetsAt == 10
CountsAt == 11

offsets == entries[OffsetsAt].value.items
counts == entries[CountsAt].value.items

\* data_head += size, without the addition
KeepHead(head, size) == head

\* data_head += size
Advance(head, size) == NumAdd(head, size)

\* lines 345-358: the turn of the offset pass for loop index n, entered with
\* data_head = head.  [st, offs, cnts, head]: the values stored at
\* offsets.value[n] and counts.value[n] and data_head afterwards, or the
\* exception os.stat raised
OffsetTurn(f, z, n, head) ==
    LET path == StatPath(z, TileIndex(z, n))
    IN  IF ~Holds(f, z, path)
        THEN [st |-> "FileNotFoundError", offs |-> <<>>, cnts |-> <<>>, head |-> head]
        ELSE [st |-> "ok", offs |-> <<head>>, cnts |-> <<st_size(f, path)>>,
              head |-> Advance(head, st_size(f, path))]

\* lines 344-358: the turns lo..hi-1 of "for i in range(total_tile)", one
\* after the other (the range is halved so that the evaluation stays
\* shallow; the left half runs first and hands its data_head to the right
\* half).  A turn that raises ends the loop.
RECURSIVE OffsetTurns(_, _, _, _, _)
OffsetTurns(f, z, lo, hi, head) ==
    IF hi - lo = 1
    THEN OffsetTurn(f, z, lo, head)
    ELSE LET mid == (lo + hi) \div 2
             l == OffsetTurns(f, z, lo, mid, head)
         IN  IF l.st # "ok"
             THEN l
             ELSE LET r == OffsetTurns(f, z, mid, hi, l.head)
                  IN  [st |-> r.st, offs |-> l.offs \o r.offs, cnts |-> l.cnts \o r.cnts,
                       head |-> r.head]

\* lines 365-375: the turn of the write pass for loop index n, entered with
\* the output at position pos.  [st, tiles, pos]
CopyTurn(f, z, n, pos) ==
    LET path == OpenPath(z, TileIndex(z, n))
    IN  IF ~Holds(f, z, path)
        THEN [st |-> "FileNotFoundError", tiles |-> <<>>, pos |-> pos]
        ELSE [st |-> "ok",
              tiles |-> <<[at |-> pos, len |-> st_size(f, path), src |-> path]>>,
              pos |-> NumAdd(pos, st_size(f, path))]

\* lines 364-375: the turns lo..hi-1 of the write pass, one after the other
RECURSIVE CopyTurns(_, _, _, _, _)
CopyTurns(f, z, lo, hi, pos) ==
    IF hi - lo = 1
    THEN CopyTurn(f, z, lo, pos)
    ELSE LET mid == (lo + hi) \div 2
             l == CopyTurns(f, z, lo, mid, pos)
         IN  IF l.st # "ok"
             THEN l
             ELSE LET r == CopyTurns(f, z, mid, hi, l.pos)
                  IN  [st |-> r.st, tiles |-> l.tiles \o r.tiles, pos |-> r.pos]

Fail(e) ==
    /\ pc' = "failed"
    /\ err' = e

\* lines 299-340: the arguments, the sample tile, the entries and the first
\* build_header()
Start ==
    /\ pc = "start"
    /\ IF ~Holds(fs, zoom, SamplePath(zoom))
       THEN /\ Fail("FileNotFoundError")
            /\ UNCHANGED <<entries, header, tailpos, data_head>>
       ELSE \E r \in {build_header(MainEntries(zoom, classical, tile_dim, tile_dim),
                                      classical, byteorder)} :
                /\ entries' = MainEntries(zoom, classical, tile_dim, tile_dim)
                /\ IF r.st = "ok"
                   THEN /\ header' = r.b
                        /\ tailpos' = r.at
                        /\ data_head' = ToNum(len(r.b))
                        /\ pc' = "offsets"
                        /\ err' = ""
                   ELSE /\ Fail(r.st)
                        /\ UNCHANGED <<header, tailpos, data_head>>
    /\ UNCHANGED <<zoom, classical, byteorder, tile_dim, fs, i, out, bx, by, bindex,
                   bout, located>>

\* lines 342-358: the offset pass.  i counts the turns that completed.
OffsetPass ==
    /\ pc = "offsets"
    /\ \E r \in {OffsetTurns(fs, zoom, 0, total_tile(zoom), data_head)} :
           /\ entries' =
                 [entries EXCEPT
                     ![OffsetsAt].value.items = r.offs \o SubSeq(@, Len(r.offs) + 1, Len(@)),
                     ![CountsAt].value.items = r.cnts \o SubSeq(@, Len(r.cnts) + 1, Len(@))]
           /\ data_head' = r.head
           /\ i' = Len(r.offs)
           /\ IF r.st = "ok"
              THEN pc' = "rebuild" /\ UNCHANGED err
              ELSE Fail(r.st)
    /\ UNCHANGED <<zoom, classical, byteorder, tile_dim, fs, header, tailpos, out,
                   bx, by, bindex, bout, located>>

\* lines 360-363: the second build_header(), open(f"{zoom}.tif", "wb") and
\* tiff.write(header)
Rebuild ==
    /\ pc = "rebuild"
    /\ \E r \in {build_header(entries, classical, byteorder)} :
           IF r.st = "ok"
           THEN /\ header' = r.b
                /\ tailpos' = r.at
                /\ out' = [pos |-> ToNum(len(r.b)), tiles |-> <<>>]
                /\ pc' = "write"
                /\ UNCHANGED err
           ELSE /\ Fail(r.st)
                /\ UNCHANGED <<header, tailpos, out>>
    /\ UNCHANGED <<zoom, classical, byteorder, tile_dim, fs, entries, data_head, i,
                   bx, by, bindex, bout, located>>

\* lines 364-377: the write pass (shutil.copyfileobj appends the whole source
\* file at the output's end) and return 0.  A turn that raises leaves the
\* output as written so far.
WritePass ==
    /\ pc = "write"
    /\ \E r \in {CopyTurns(fs, zoom, 0, total_tile(zoom), out.pos)} :
           /\ out' = [pos |-> r.pos, tiles |-> r.tiles]
           /\ i' = Len(r.tiles)
           /\ IF r.st = "ok"
              THEN pc' = "done" /\ UNCHANGED err
              ELSE Fail(r.st)
    /\ UNCHANGED <<zoom, classical, byteorder, tile_dim, fs, entries, header, tailpos,
                   data_head, bx, by, bindex, bout, located>>

Next == Start \/ OffsetPass \/ Rebuild \/ WritePass

\* file sizes: 1 byte, 300 bytes, 2^31 bytes
TileSizes == {<<1>>, <<44, 1>>, <<0, 0, 0, 128>>}

InitMain ==
    /\ pc = "start"
    /\ classical \in BOOLEAN
    /\ tile_dim = 512
    /\ entries = <<>> /\ header = <<>> /\ tailpos = <<>> /\ err = ""
    /\ data_head = <<>> /\ i = 0 /\ out = NoOut
    /\ bx = {} /\ by = {} /\ bindex = {} /\ bout = <<{}, {}>> /\ located = <<>>

Init ==
    /\ InitMain
    /\ zoom \in 0..MaxZoom
    /\ byteorder \in {"little", "big"}
    /\ \E s1, s2 \in TileSizes, m \in {-1, 0, 7} :
          fs = [layout |-> "x10000", pat |-> <<s1, s2>>, missing |-> m]

Spec == Init /\ [][Next]_vars

\* the same program up to a zoom level whose tile indices pass 10000, on
\* source trees of each layout
InitDeep ==
    /\ InitMain
    /\ zoom \in 0..DeepZoom
    /\ byteorder = "little"
    /\ \E l \in {"x10000", "x100000", "both"} :
          fs = [layout |-> l, pat |-> <<<<1>>, <<44, 1>>>>, missing |-> -1]

SpecDeep == InitDeep /\ [][Next]_vars

(***************************************************************************)
(* Claims about main.                                                      *)
(***************************************************************************)
\* C3: after the offset pass, for any source tile sizes, offset[0] equals
\* the byte length of the header (of the final header too, once it is
\* rebuilt and written), and offset[k+1] = offset[k] + length[k] for every k
\* below the last tile, offset and length being the TileOffsets and
\* TileByteCounts arrays in row-major grid order.
C3_OffsetsContiguous ==
    pc \in {"rebuild", "write", "done"} =>
        /\ Len(offsets) = total_tile(zoom)
        /\ Len(counts) = total_tile(zoom)
        /\ offsets[1] = ToNum(len(header))
        /\ \A k \in 1..(total_tile(zoom) - 1) :
              offsets[k + 1] = NumAdd(offsets[k], counts[k])

\* a 64-bit run at zoom 2 that wrote its final header, over tiles of
\* different sizes
C3_Witness ==
    /\ pc = "done"
    /\ zoom = 2
    /\ ~classical
    /\ offsets[1] = ToNum(len(header))
    /\ \E k \in 1..(total_tile(zoom) - 2) :
          /\ counts[k] # counts[k + 1]
          /\ offsets[k + 2] = NumAdd(NumAdd(offsets[k], counts[k]), counts[k + 1])

\* element k of the array entry at place e, as a TIFF reader on this host
\* reads it from header h
StoredElement(h, at, e, k, order) ==
    LET w == TIFF_BYTES[entries[e].type]
        b == SubSeq(Flat(h), at[e] + (k - 1) * w + 1, at[e] + k * w)
    IN  Strip(IF order = "little" THEN b ELSE Reverse(b))

\* C10: in the 64-bit variant every offset and count the tool writes is 8
\* bytes wide, so that a tile whose start position in the output is 2^32 or
\* more has its offset stored without overflow or truncation: the run does
\* not end in a packing error, and the header it writes holds that offset.
C10_BigTiffStoresLargeOffsets ==
    (/\ ~classical
     /\ pc \in {"rebuild", "write", "done", "failed"}
     /\ i = total_tile(zoom)
     /\ \E k \in 1..total_tile(zoom) : Len(offsets[k]) > 4) =>
        /\ ~(pc = "failed" /\ err = "struct.error")
        /\ pc \in {"write", "done"} =>
              \A k \in 1..total_tile(zoom) :
                  StoredElement(header, tailpos, OffsetsAt, k, byteorder) = offsets[k]

\* C4: for every tile index reached, the source path the write pass resolved
\* is the path the offset pass resolves for that tile (same shard directory,
\* same file name).
C4_SamePathInBothPasses ==
    \A k \in 1..Len(out.tiles) :
        out.tiles[k].src = StatPath(zoom, out.tiles[k].src.npix)

\* C5: after a run that completes, the output is the final header followed
\* by the tile payloads in row-major grid order: the bytes copied for tile k
\* start at offset[k] and are length[k] bytes long, as the header declares,
\* and the file size is the header length plus the sum of the lengths.
C5_OutputMatchesDeclaredLayout ==
    pc = "done" =>
        /\ Len(out.tiles) = total_tile(zoom)
        /\ offsets[1] = ToNum(len(header))
        /\ \A k \in 1..total_tile(zoom) :
              /\ out.tiles[k].at = offsets[k]
              /\ out.tiles[k].len = counts[k]
        /\ out.pos = NumAdd(offsets[total_tile(zoom)], counts[total_tile(zoom)])

====
